---------------------------- MODULE Spec2Model ----------------------------
(***************************************************************************)
(* Background-remover HTTP service (naeem5877/bg-remover-api).             *)
(*                                                                         *)
(* The repository holds four iterations of one single-file service:        *)
(*   "server"    src/server.js          lazy download, fileFilter, /health *)
(*                                      reports the cache's file count     *)
(*   "part_000"  src/unnamed/part_000   lazy download, fileFilter          *)
(*   "part_001"  src/unnamed/part_001   no fileFilter, no normalization,   *)
(*                                      no cache directory of its own      *)
(*   "part_002"  src/unnamed/part_002   eager download (ensureModels)      *)
(*                                                                         *)
(* One process runs one variant.  The model follows the Node.js event      *)
(* loop: every action is one run-to-completion turn, i.e. the code between *)
(* two awaits.  The multipart parser (upload.single) and the synchronous   *)
(* head of the route handler touch no shared state, so a request's arrival *)
(* is one turn; what they did, in order, is kept in the request's log.     *)
(***************************************************************************)
EXTENDS Integers, Sequences, FiniteSets, TLC

\* Bounds of the model.
MaxReq == 2       \* requests in flight at the same time
NumAssets == 2    \* files that make up the model asset set

Variants == {"server", "part_000", "part_001", "part_002"}

\* process.env.API_KEY: unset, the empty string, or a key.
Undefined == "<undefined>"
EnvValues == {Undefined, "", "k1"}

\* The Authorization header as a sequence of pieces; <<>> is "no header".
Headers == {<<>>, <<"Bearer ", "k1">>}

\* Uploads: sizes in MB.
NoFile == [mimetype |-> "", size |-> 0, decodable |-> FALSE]
Files == { NoFile,
           [mimetype |-> "image/png",  size |-> 1,  decodable |-> TRUE],
           [mimetype |-> "image/png",  size |-> 1,  decodable |-> FALSE],
           [mimetype |-> "text/plain", size |-> 1,  decodable |-> FALSE],
           [mimetype |-> "image/webp", size |-> 16, decodable |-> TRUE] }

Slots == 1..MaxReq
Assets == 1..NumAssets
NoReq == [header |-> <<>>, file |-> NoFile]
NoResponse == [header |-> <<>>, file |-> NoFile, status |-> 0, log |-> <<>>]

VARIABLES
    variant,    \* which iteration of the service this deployment runs
    env,        \* process.env.API_KEY
    proc,       \* "loading" | "running" | "exited"
    exitCode,   \* status of the last exit
    dirExists,  \* MODEL_DIR exists on the temporary disk
    cache,      \* MODEL_DIR's asset files: "absent" | "partial" | "complete"
    ensure,     \* ensureModels(): "none" | "access" | "mkdir" | "download"
                \*               | "skipped" | "ready" | "failed"
    ensureIdx,  \* the asset downloadModels is writing
    pc,         \* per slot: "idle" | "normalizing" | "removing" | "download" | "infer"
    req,        \* per slot: the request
    log,        \* per slot: the steps run for the request, in order
    idx,        \* per slot: the asset the request's download is writing
    last,       \* the response sent by the turn that just ran, if any
    coldRace    \* two requests were populating the cold cache at once

vars == <<variant, env, proc, exitCode, dirExists, cache, ensure, ensureIdx,
          pc, req, log, idx, last, coldRace>>

disk == <<dirExists, cache>>
startup == <<ensure, ensureIdx>>
slots == <<pc, req, log, idx>>
config == <<variant, env>>

----------------------------------------------------------------------------
\* Configuration

\* const API_KEY = process.env.API_KEY [|| 'demo-key-123']
API_KEY ==
    IF variant = "part_002"
    THEN (IF env \in {Undefined, ""} THEN "demo-key-123" ELSE env)
    ELSE env

allowed == {"image/png", "image/jpeg", "image/jpg", "image/webp"}

HasFileFilter(v) == v # "part_001"

\* limits: { fileSize: N * 1024 * 1024 }, in MB
FileSizeLimit(v) == IF v = "part_001" THEN 10 ELSE 15

\* The variants that hand publicPath: file://MODEL_DIR to the model runtime.
UsesModelDir(v) == v # "part_001"

\* The variants that create MODEL_DIR with mkdirSync while the module loads.
CreatesDirAtLoad(v) == v \in {"server", "part_000"}

LazyVariants == {"server", "part_000", "part_001"}

----------------------------------------------------------------------------
\* Pure functions

RECURSIVE RemoveFirst(_, _)
\* String.prototype.replace(w, ''): drops the first occurrence of w.
RemoveFirst(h, w) ==
    IF h = <<>> THEN <<>>
    ELSE IF Head(h) = w THEN Tail(h)
    ELSE <<Head(h)>> \o RemoveFirst(Tail(h), w)

\* (req.headers.authorization || '').replace('Bearer ', '').trim()
Token(h) ==
    LET rest == RemoveFirst(h, "Bearer ")
    IN IF rest = <<>> THEN "" ELSE Head(rest)

\* The handler's auth test passes.
Authorized(v, h) ==
    IF v = "server"
    THEN ~(API_KEY \in {Undefined, ""}) /\ Token(h) = API_KEY
    ELSE Token(h) = API_KEY

\* upload.single('image'): "ok", or the error multer passes to next().
MulterOutcome(v, f) ==
    IF f = NoFile THEN "ok"
    ELSE IF HasFileFilter(v) /\ f.mimetype \notin allowed THEN "filter"
    ELSE IF f.size > FileSizeLimit(v) THEN "limit"
    ELSE "ok"

\* What upload.single ran for the file, in order.
MulterLog(v, f) ==
    IF f = NoFile THEN <<>>
    ELSE (IF HasFileFilter(v) THEN <<"fileFilter">> ELSE <<>>)
         \o (IF HasFileFilter(v) /\ f.mimetype \notin allowed
             THEN <<>> ELSE <<"sizeLimit">>)

\* No error-handling middleware is registered, so an error passed to next()
\* reaches Express's default handler: the error carries no status, so 500.
DefaultErrorStatus(err) == 500

CachePopulated == dirExists /\ \A a \in Assets : cache[a] = "complete"

\* GET /health (server.js): file_count
FileCount ==
    IF dirExists THEN Cardinality({a \in Assets : cache[a] # "absent"}) ELSE 0

EmptyCache == [a \in Assets |-> "absent"]

----------------------------------------------------------------------------
\* Helpers of the actions

\* The process ends: every connection in flight is dropped.
Exit(code) ==
    /\ proc' = "exited"
    /\ exitCode' = code
    /\ pc' = [r \in Slots |-> "idle"]
    /\ req' = [r \in Slots |-> NoReq]
    /\ log' = [r \in Slots |-> <<>>]
    /\ idx' = [r \in Slots |-> 0]

\* res.status(s).json(..) / res.send(..): the request is over.
Respond(r, s, l) ==
    /\ last' = [header |-> req[r].header, file |-> req[r].file,
                status |-> s, log |-> l]
    /\ pc' = [pc EXCEPT ![r] = "idle"]
    /\ req' = [req EXCEPT ![r] = NoReq]
    /\ log' = [log EXCEPT ![r] = <<>>]
    /\ idx' = [idx EXCEPT ![r] = 0]

----------------------------------------------------------------------------
Init ==
    /\ variant \in Variants
    /\ env \in EnvValues
    /\ proc = "loading"
    /\ exitCode = 0
    /\ dirExists = FALSE
    /\ cache = EmptyCache
    /\ ensure = "none"
    /\ ensureIdx = 0
    /\ pc = [r \in Slots |-> "idle"]
    /\ req = [r \in Slots |-> NoReq]
    /\ log = [r \in Slots |-> <<>>]
    /\ idx = [r \in Slots |-> 0]
    /\ last = NoResponse
    /\ coldRace = FALSE


----------------------------------------------------------------------------
\* Process start

\* A catch that only logs the failure.
EnsureModelsCatchLogOnly == UNCHANGED <<proc, exitCode, slots>>

\* ensureModels().catch(err => { console.error(..); process.exit(1); })
EnsureModelsCatch == Exit(1)

\* Module load up to app.listen.  The lazy variants create MODEL_DIR with
\* mkdirSync outside any try: if it throws, the load dies with an uncaught
\* exception.  The eager variant calls ensureModels() without awaiting it,
\* which runs up to its first await (fs.access) and returns; listen follows.
Boot ==
    /\ proc = "loading"
    /\ IF CreatesDirAtLoad(variant) /\ ~dirExists
       THEN \/ /\ dirExists' = TRUE
               /\ proc' = "running"
               /\ UNCHANGED <<exitCode, slots>>
            \/ /\ Exit(1)
               /\ UNCHANGED dirExists
       ELSE /\ proc' = "running"
            /\ UNCHANGED <<exitCode, dirExists, slots>>
    /\ ensure' = IF variant = "part_002" THEN "access" ELSE "none"
    /\ UNCHANGED <<config, cache, ensureIdx, coldRace>>
    /\ last' = NoResponse

\* await fs.access(MODEL_DIR) settles: 'Models already exist', or the catch
\* block starts and issues fs.mkdir.
EnsureAccess ==
    /\ proc = "running"
    /\ ensure = "access"
    /\ ensure' = IF dirExists THEN "skipped" ELSE "mkdir"
    /\ UNCHANGED <<config, proc, exitCode, disk, ensureIdx, slots, coldRace>>
    /\ last' = NoResponse

\* await fs.mkdir(MODEL_DIR, { recursive: true }) settles; on success
\* downloadModels is called.
EnsureMkdir ==
    /\ proc = "running"
    /\ ensure = "mkdir"
    /\ \/ /\ dirExists' = TRUE
          /\ ensure' = "download"
          /\ ensureIdx' = 1
          /\ UNCHANGED <<proc, exitCode, slots>>
       \/ /\ ensure' = "failed"
          /\ EnsureModelsCatch
          /\ UNCHANGED <<dirExists, ensureIdx>>
    /\ UNCHANGED <<config, cache, coldRace>>
    /\ last' = NoResponse

\* downloadModels writes its next asset file; after the last one
\* ensureModels resolves.
EnsureDownloadAsset ==
    /\ proc = "running"
    /\ ensure = "download"
    /\ dirExists
    /\ cache' = [cache EXCEPT ![ensureIdx] = "complete"]
    /\ IF ensureIdx = NumAssets
       THEN ensure' = "ready" /\ ensureIdx' = 0
       ELSE ensure' = ensure /\ ensureIdx' = ensureIdx + 1
    /\ UNCHANGED <<config, proc, exitCode, dirExists, slots, coldRace>>
    /\ last' = NoResponse

\* downloadModels rejects; the file it was writing stays as it was or is
\* left truncated.
EnsureDownloadFail ==
    /\ proc = "running"
    /\ ensure = "download"
    /\ \E truncated \in BOOLEAN :
          cache' = IF truncated /\ dirExists
                   THEN [cache EXCEPT ![ensureIdx] = "partial"]
                   ELSE cache
    /\ ensure' = "failed"
    /\ EnsureModelsCatch
    /\ UNCHANGED <<config, dirExists, ensureIdx, coldRace>>
    /\ last' = NoResponse

\* The platform stops the running process (redeploy, idle shutdown).
Kill ==
    /\ proc = "running"
    /\ Exit(143)
    /\ UNCHANGED <<config, disk, startup, coldRace>>
    /\ last' = NoResponse

\* The platform starts the service again; the temporary storage may have
\* been wiped in between.
Restart ==
    /\ proc = "exited"
    /\ proc' = "loading"
    /\ \E wiped \in BOOLEAN :
          IF wiped
          THEN dirExists' = FALSE /\ cache' = EmptyCache
          ELSE UNCHANGED disk
    /\ ensure' = "none"
    /\ ensureIdx' = 0
    /\ last' = NoResponse
    /\ coldRace' = FALSE
    /\ UNCHANGED <<config, exitCode, slots>>

----------------------------------------------------------------------------
\* POST /remove-bg

\* upload.single('image') and then the handler up to its first await.
PostRemoveBg(r, h, f) ==
    /\ proc = "running"
    /\ pc[r] = "idle"
    /\ \A o \in Slots : pc[o] = "idle" => r <= o    \* a new connection takes the first free slot
    /\ LET m == MulterOutcome(variant, f)
           l0 == MulterLog(variant, f)
           l1 == l0 \o <<"auth">>
           l2 == l1 \o <<"fileCheck">>
           rq == [header |-> h, file |-> f]
           answer(s, l) ==
               /\ last' = [header |-> h, file |-> f, status |-> s, log |-> l]
               /\ UNCHANGED slots
       IN IF m # "ok" THEN answer(DefaultErrorStatus(m), l0)
          ELSE IF ~Authorized(variant, h) THEN answer(401, l1)
          ELSE IF f = NoFile THEN answer(400, l2)
          ELSE /\ req' = [req EXCEPT ![r] = rq]
               /\ IF variant = "part_001"
                  THEN /\ pc' = [pc EXCEPT ![r] = "removing"]
                       /\ log' = [log EXCEPT ![r] = l2 \o <<"removeBackground">>]
                  ELSE /\ pc' = [pc EXCEPT ![r] = "normalizing"]
                       /\ log' = [log EXCEPT ![r] = l2 \o <<"normalize">>]
               /\ UNCHANGED <<idx>>
               /\ last' = NoResponse
    /\ UNCHANGED <<config, proc, exitCode, disk, startup, coldRace>>

\* await sharp(..).rotate().png(..).toBuffer() settles: the handler calls
\* removeBackground, or answers 400 'Invalid image'.
NormalizeDone(r) ==
    /\ proc = "running"
    /\ pc[r] = "normalizing"
    /\ IF req[r].file.decodable
       THEN /\ pc' = [pc EXCEPT ![r] = "removing"]
            /\ log' = [log EXCEPT ![r] = log[r] \o <<"removeBackground">>]
            /\ UNCHANGED <<req, idx>>
            /\ last' = NoResponse
       ELSE Respond(r, 400, log[r])
    /\ UNCHANGED <<config, proc, exitCode, disk, startup, coldRace>>

\* A call that fetches the assets again whatever MODEL_DIR holds.
NeedsDownloadAlways(v) == UsesModelDir(v)

\* removeBackground(inputBuffer, { publicPath: PUBLIC_PATH_URI, .. }) has to
\* fetch the model assets into MODEL_DIR first ('First time: downloads
\* ~300MB to /tmp', 'downloads 300MB model once').
NeedsDownload(v) == UsesModelDir(v) /\ ~CachePopulated

\* removeBackground looks for its assets.
LoadModel(r) ==
    /\ proc = "running"
    /\ pc[r] = "removing"
    /\ IF NeedsDownload(variant)
       THEN /\ pc' = [pc EXCEPT ![r] = "download"]
            /\ idx' = [idx EXCEPT ![r] = 1]
            /\ log' = [log EXCEPT ![r] = log[r] \o <<"download">>]
            /\ coldRace' = (coldRace \/ \E o \in Slots \ {r} : pc[o] = "download")
       ELSE /\ pc' = [pc EXCEPT ![r] = "infer"]
            /\ UNCHANGED <<idx, log, coldRace>>
    /\ UNCHANGED <<config, proc, exitCode, disk, startup, req>>
    /\ last' = NoResponse

\* The request's download writes its next asset file; nothing keeps two
\* requests from writing the same files.
DownloadAsset(r) ==
    /\ proc = "running"
    /\ pc[r] = "download"
    /\ dirExists
    /\ cache' = [cache EXCEPT ![idx[r]] = "complete"]
    /\ IF idx[r] = NumAssets
       THEN pc' = [pc EXCEPT ![r] = "infer"] /\ idx' = [idx EXCEPT ![r] = 0]
       ELSE pc' = pc /\ idx' = [idx EXCEPT ![r] = idx[r] + 1]
    /\ UNCHANGED <<config, proc, exitCode, dirExists, startup, req, log, coldRace>>
    /\ last' = NoResponse

\* The request's download fails: the handler's catch answers 500; the file
\* being written stays as it was or is left truncated.
DownloadFail(r) ==
    /\ proc = "running"
    /\ pc[r] = "download"
    /\ \E truncated \in BOOLEAN :
          cache' = IF truncated /\ dirExists
                   THEN [cache EXCEPT ![idx[r]] = "partial"]
                   ELSE cache
    /\ Respond(r, 500, log[r])
    /\ UNCHANGED <<config, proc, exitCode, dirExists, startup, coldRace>>

\* Inference settles: the handler sends the PNG, or its catch answers 500.
\* Assets that are not all there, or bytes that are no image, make it fail.
Infer(r) ==
    /\ proc = "running"
    /\ pc[r] = "infer"
    /\ \/ /\ UsesModelDir(variant) => CachePopulated
          /\ req[r].file.decodable
          /\ Respond(r, 200, log[r])
       \/ Respond(r, 500, log[r])
    /\ UNCHANGED <<config, proc, exitCode, disk, startup, coldRace>>

----------------------------------------------------------------------------
Next ==
    \/ Boot
    \/ EnsureAccess
    \/ EnsureMkdir
    \/ EnsureDownloadAsset
    \/ EnsureDownloadFail
    \/ Kill
    \/ Restart
    \/ \E r \in Slots, h \in Headers, f \in Files : PostRemoveBg(r, h, f)
    \/ \E r \in Slots : NormalizeDone(r)
    \/ \E r \in Slots : LoadModel(r)
    \/ \E r \in Slots : DownloadAsset(r)
    \/ \E r \in Slots : DownloadFail(r)
    \/ \E r \in Slots : Infer(r)

Spec == Init /\ [][Next]_vars

TypeOK ==
    /\ variant \in Variants
    /\ env \in EnvValues
    /\ proc \in {"loading", "running", "exited"}
    /\ exitCode \in {0, 1, 143}
    /\ dirExists \in BOOLEAN
    /\ cache \in [Assets -> {"absent", "partial", "complete"}]
    /\ ensure \in {"none", "access", "mkdir", "download", "skipped", "ready", "failed"}
    /\ ensureIdx \in 0..NumAssets
    /\ pc \in [Slots -> {"idle", "normalizing", "removing", "download", "infer"}]
    /\ idx \in [Slots -> 0..NumAssets]
    /\ coldRace \in BOOLEAN


----------------------------------------------------------------------------
\* Properties

Ran(l, step) == \E i \in 1..Len(l) : l[i] = step

Answered == last # NoResponse

\* The request carried the configured key.
ValidToken(h) == API_KEY \notin {Undefined, ""} /\ Token(h) = API_KEY

Idle == \A r \in Slots : pc[r] = "idle"

\* C1: a request whose token does not match the configured key is answered
\* 401 and none of upload validation (MIME allow-list, size limit),
\* normalization and background removal ran for it.
C1_UnauthorizedRunsNothing ==
    (Answered /\ Token(last.header) # API_KEY) =>
        /\ last.status = 401
        /\ ~Ran(last.log, "fileFilter")
        /\ ~Ran(last.log, "sizeLimit")
        /\ ~Ran(last.log, "normalize")
        /\ ~Ran(last.log, "removeBackground")

\* C2: a request with a valid token and a file of a MIME type outside the
\* allow-list, or larger than the size limit, is answered 400.
C2_BadUploadIs400 ==
    (/\ Answered
     /\ ValidToken(last.header)
     /\ last.file # NoFile
     /\ \/ last.file.mimetype \notin allowed
        \/ last.file.size > FileSizeLimit(variant))
    => last.status = 400

\* C3: in every variant, a request with a valid token and an allow-listed
\* MIME type whose bytes are no image is answered 400 and background removal
\* is never invoked for it.
C3_UndecodableIs400 ==
    LET corrupt(f) == /\ f # NoFile
                      /\ f.mimetype \in allowed
                      /\ f.size <= FileSizeLimit(variant)
                      /\ ~f.decodable
    IN /\ \A r \in Slots :
             (pc[r] # "idle" /\ ValidToken(req[r].header) /\ corrupt(req[r].file))
             => ~Ran(log[r], "removeBackground")
       /\ (Answered /\ ValidToken(last.header) /\ corrupt(last.file))
          => (last.status = 400 /\ ~Ran(last.log, "removeBackground"))

\* C4: in the eager variant, while the startup download that follows an
\* absent cache directory has not finished, no request is being handled and
\* none is answered.
C4_NoTrafficDuringStartupDownload ==
    (variant = "part_002" /\ ensure \in {"mkdir", "download"}) =>
        (Idle /\ ~Answered)

\* C5: in the lazy variants that use the cache directory, after concurrent
\* first-use requests against a cold cache, once no request is in flight a
\* cache that was written to is fully populated and holds no truncated file.
C5_CacheValidAfterColdRace ==
    (/\ variant \in LazyVariants
     /\ UsesModelDir(variant)
     /\ proc = "running"
     /\ coldRace
     /\ Idle
     /\ cache # EmptyCache)
    => CachePopulated

\* C6: in the lazy variants no failure to create the cache directory or to
\* download assets ends the process with a failure status.
C6_LazyFailureNeverExits ==
    variant \in LazyVariants => ~(proc = "exited" /\ exitCode = 1)

\* C7: in the eager variant, once creating the cache directory or the
\* download has failed, the process has exited with a non-zero status and
\* serves no request.
C7_StartupFailureExits ==
    (variant = "part_002" /\ ensure = "failed") =>
        (proc = "exited" /\ exitCode # 0 /\ Idle)

\* C7's case: the startup download failed with the cache left unpopulated.
C7_Witness ==
    /\ variant = "part_002"
    /\ ensure = "failed"
    /\ dirExists
    /\ ~CachePopulated
    /\ proc = "exited"

C9_NoHeaderNeverPasses ==
    /\ \A r \in Slots : pc[r] # "idle" => req[r].header # <<>>
    /\ (Answered /\ last.header = <<>>) =>
          /\ ~Ran(last.log, "fileCheck")
          /\ ~Ran(last.log, "normalize")
          /\ ~Ran(last.log, "removeBackground")
          /\ Ran(last.log, "auth") => last.status = 401

\* C10: in the eager variant, whenever ensureModels found the directory
\* present and skipped the download, the directory holds every asset.
C10_SkippedMeansComplete ==
    (variant = "part_002" /\ ensure = "skipped") => CachePopulated

=============================================================================
